---------------------------- MODULE Spec2Model ----------------------------
(***************************************************************************)
(* A model of FastqBLAST.py: sampling reads of a FASTQ file, trimming the  *)
(* low-quality ends, searching them with BLAST, fetching GenBank records   *)
(* for the hits and writing a tabular report.                              *)
(*                                                                         *)
(* Python values are modelled as follows.  A str is a sequence of          *)
(* one-character strings, a list is a sequence, an insertion-ordered dict  *)
(* is a sequence of entries [key |-> k, val |-> v] with distinct keys, and *)
(* an inner defaultdict() (no default factory: a missing key raises        *)
(* KeyError) is a function whose DOMAIN is the set of keys present.        *)
(***************************************************************************)
EXTENDS Integers, Sequences, FiniteSets, TLC

VARIABLES
    pc,             \* the call of main() (or the step of fetch_gene_info) to run
                    \* next; where the run stopped once err is set; "done" at
                    \* the end of main()
    err,            \* the exception that ended the run, "" while there is none
    num_lines,      \* lines of the FASTQ file
    n_absolute,     \* args.nAbsolute
    n_percent,      \* args.nPercent
    sample_size,    \* random_sample's sample_size, -1 before it is computed
    sample_set,     \* random_sample's result: a set of line offsets
    fastq,          \* the FASTQ file: a sequence of [header, sequence, ascii]
    ascii64,        \* args.ascii64
    leadingQ,       \* args.leadingQ
    trailingQ,      \* args.trailingQ
    sample_dict,    \* header -> {sequence, phred, trimmed_phred, trimmed_sequence}
    retrimmed,      \* trim_ends applied to its own output (a second call)
    fasta,          \* blast_queries.fasta: a sequence of <<title, sequence>>
    blast_results,  \* blast_results.xml: a sequence of [query, alignments]
    blast_dict,     \* hit title -> fields of the hit
    GeneIDs,        \* the deduplicated gi numbers of the hits
    batch_size,     \* fetch_gene_info's batch_size
    posted,         \* number of Entrez.epost requests made
    start,          \* fetch_gene_info: the batch being fetched (retstart)
    attempt,        \* fetch_gene_info: attempts made for this batch
    fetch_handle,   \* fetch_gene_info: the local variable fetch_handle
    efetch_log,     \* every Entrez.efetch request made: [start, attempt, outcome]
    fetch_out,      \* fetch_results.txt: the batches written, in order
    genbank,        \* the GenBank records the server holds: a sequence of ids
    report          \* blast_report.txt: the rows written after the header row

vars == <<pc, err, num_lines, n_absolute, n_percent, sample_size, sample_set,
          fastq, ascii64, leadingQ, trailingQ, sample_dict, retrimmed,
          fasta, blast_results, blast_dict, GeneIDs, batch_size, posted, start,
          attempt, fetch_handle, efetch_log, fetch_out, genbank, report>>

(***************************************************************************)
(* Bounds of the model.                                                    *)
(***************************************************************************)
\* longest read
MaxLen == 3
\* highest phred score of a base; the thresholds range over 0..MaxScore + 1
MaxScore == 2
\* most lines of a FASTQ file given to random_sample alone
MaxLines == 12
\* largest --nAbsolute
MaxAbsolute == 3

\* most database sequences a search response names
MaxHits == 2

\* most gi numbers given to fetch_gene_info alone
MaxGenes == 3
\* largest batch_size given to fetch_gene_info alone
MaxBatch == 2
\* length of the first read of the file that main() and the reports are given
ReadLen == 2

Scores == 0..MaxScore
Thresholds == 0..(MaxScore + 1)
\* the thresholds that tell reads of scores 0 and MaxScore apart: every base
\* passes, the bases of score MaxScore pass, no base passes
CutOffs == {0, 1, MaxScore + 1}
\* the scores of a read whose first base, or whose last base, is of low quality
LowFirst == [i \in 1..ReadLen |-> IF i = 1 THEN 0 ELSE MaxScore]
LowLast == [i \in 1..ReadLen |-> IF i = ReadLen THEN 0 ELSE MaxScore]
Bases == <<"A", "C", "G", "T">>
HeaderA == <<"@", "a">>
HeaderB == <<"@", "b">>

\* all lists over S of length at most n
SeqsUpTo(S, n) == UNION {[1..k -> S] : k \in 0..n}

(***************************************************************************)
(* Python helpers.                                                         *)
(***************************************************************************)
Min(a, b) == IF a < b THEN a ELSE b

\* s[:n] for n >= 0: a slice never reaches past the end
SliceTo(s, n) == SubSeq(s, 1, Min(n, Len(s)))

\* s[n:] for n >= 0
SliceFrom(s, n) == SubSeq(s, n + 1, Len(s))

\* d[k] = v on an inner dict
SetKey(d, k, v) == [x \in (DOMAIN d) \cup {k} |-> IF x = k THEN v ELSE d[x]]

KeySet(d) == {d[i].key : i \in DOMAIN d}

\* d[k] for a key that is present
Get(d, k) == (CHOOSE e \in {d[i] : i \in DOMAIN d} : e.key = k).val

\* a list as a set
Range(s) == {s[i] : i \in DOMAIN s}

\* round(num / den) as Python 3 rounds: to the nearest integer, a half to even
PyRound(num, den) ==
    LET q == num \div den
        r == num % den
    IN  IF 2 * r < den THEN q
        ELSE IF 2 * r > den THEN q + 1
        ELSE IF q % 2 = 0 THEN q ELSE q + 1

(***************************************************************************)
(* trim_ends                                                               *)
(***************************************************************************)
\* the first loop's `base` at its break, counted from 1; 0 when it never breaks
FirstAtLeast(phred, q) ==
    IF \E i \in DOMAIN phred : phred[i] >= q
    THEN CHOOSE i \in DOMAIN phred :
            /\ phred[i] >= q
            /\ \A j \in 1..(i - 1) : phred[j] < q
    ELSE 0

\* the second loop's `base` at its break, counted from 1; 0 when it never breaks
LastAtLeast(phred, q) ==
    IF \E i \in DOMAIN phred : phred[i] >= q
    THEN CHOOSE i \in DOMAIN phred :
            /\ phred[i] >= q
            /\ \A j \in (i + 1)..Len(phred) : phred[j] < q
    ELSE 0

\* the first inner loop of trim_ends on one record
LeadingTrim(rec, lq) ==
    LET i == FirstAtLeast(rec["phred"], lq)
    IN  IF i = 0
        THEN rec
        ELSE SetKey(SetKey(rec, "trimmed_phred", SliceFrom(rec["phred"], i - 1)),
                    "trimmed_sequence", SliceFrom(rec["sequence"], i - 1))

\* the second inner loop of trim_ends on one record: `base` indexes the whole
\* phred list, and the slice is taken of the leading-trimmed lists
TrailingTrim(rec, tq) ==
    LET b == LastAtLeast(rec["phred"], tq)
    IN  IF b = 0
        THEN [raised |-> "", rec |-> rec]
        ELSE IF "trimmed_phred" \notin DOMAIN rec
        THEN [raised |-> "KeyError", rec |-> rec]
        ELSE [raised |-> "",
              rec |-> SetKey(SetKey(rec, "trimmed_phred",
                                    SliceTo(rec["trimmed_phred"], b)),
                             "trimmed_sequence",
                             SliceTo(rec["trimmed_sequence"], b))]

\* one pass of the outer loop
TrimRecord(rec, lq, tq) == TrailingTrim(LeadingTrim(rec, lq), tq)

\* trim_ends on the dict, from its i-th key on
RECURSIVE TrimFrom(_, _, _, _)
TrimFrom(d, i, lq, tq) ==
    IF i > Len(d)
    THEN [raised |-> "", dict |-> d]
    ELSE LET r == TrimRecord(d[i].val, lq, tq)
             d2 == [d EXCEPT ![i].val = r.rec]
         IN  IF r.raised # ""
             THEN [raised |-> r.raised, dict |-> d2]
             ELSE TrimFrom(d2, i + 1, lq, tq)

trim_ends(d, lq, tq) == TrimFrom(d, 1, lq, tq)


(***************************************************************************)
(* random_sample                                                           *)
(***************************************************************************)
LinesPerRecord == 4
MaxPercent == 100

\* num_sequences = int(num_lines/4)
NumSequences(lines) == lines \div LinesPerRecord

\* the sample size, were the quotient rounded
SampleSizeRounded(n_abs, n_pct, num_seq) ==
    IF n_pct = 0 THEN n_abs ELSE PyRound(n_pct * num_seq, MaxPercent)

\* sample_size: int() truncates the quotient (the operands are never negative)
SampleSize(n_abs, n_pct, num_seq) ==
    IF n_pct = 0 THEN n_abs ELSE (n_pct * num_seq) \div MaxPercent

RandomSample ==
    /\ pc = "random_sample" /\ err = ""
    /\ LET num_sequences == NumSequences(num_lines)
           size == SampleSize(n_absolute, n_percent, num_sequences)
       IN  /\ sample_size' = size
           /\ IF size > num_sequences \/ size = 0
              THEN /\ pc' = pc
                   /\ err' = "SystemExit"
                   /\ sample_set' = sample_set
              ELSE /\ \E chosen \in SUBSET (0..(num_sequences - 1)) :
                         /\ Cardinality(chosen) = size
                         /\ sample_set' = {x * LinesPerRecord : x \in chosen}
                   /\ pc' = "fastq_to_dict"
                   /\ err' = err
    /\ UNCHANGED <<num_lines, n_absolute, n_percent, fastq, ascii64, leadingQ,
                   trailingQ, sample_dict, retrimmed, fasta, blast_results,
                   blast_dict, GeneIDs, batch_size, posted, start, attempt,
                   fetch_handle, efetch_log, fetch_out, genbank, report>>

(***************************************************************************)
(* fastq_to_dict                                                           *)
(***************************************************************************)
Phred33 == 33
Phred64 == 64

\* [ord(x) - base for x in ascii]
Decode(ascii, is64) ==
    [i \in DOMAIN ascii |-> ascii[i] - (IF is64 THEN Phred64 ELSE Phred33)]

\* d[k] = v on an insertion-ordered dict: a new key goes last, a known key
\* keeps its place
Put(d, k, v) ==
    IF k \in KeySet(d)
    THEN [i \in DOMAIN d |-> IF d[i].key = k THEN [key |-> k, val |-> v] ELSE d[i]]
    ELSE Append(d, [key |-> k, val |-> v])

\* the records of the file whose first line is in sample_list, in file order,
\* from record i on (record i starts at line 4 * (i - 1))
RECURSIVE LoadFrom(_, _, _, _, _)
LoadFrom(file, sample_list, is64, i, d) ==
    IF i > Len(file)
    THEN d
    ELSE IF (i - 1) * LinesPerRecord \in sample_list
    THEN LoadFrom(file, sample_list, is64, i + 1,
                  Put(d, file[i].header,
                      [sequence |-> file[i].sequence,
                       ascii    |-> file[i].ascii,
                       phred    |-> Decode(file[i].ascii, is64)]))
    ELSE LoadFrom(file, sample_list, is64, i + 1, d)

fastq_to_dict(file, sample_list, is64) == LoadFrom(file, sample_list, is64, 1, <<>>)

FastqToDict ==
    /\ pc = "fastq_to_dict" /\ err = ""
    /\ sample_dict' = fastq_to_dict(fastq, sample_set, ascii64)
    /\ pc' = "trim_ends"
    /\ UNCHANGED <<err, num_lines, n_absolute, n_percent, sample_size, sample_set,
                   fastq, ascii64, leadingQ, trailingQ, retrimmed, fasta,
                   blast_results, blast_dict, GeneIDs, batch_size, posted, start,
                   attempt, fetch_handle, efetch_log, fetch_out, genbank, report>>

(***************************************************************************)
(* trim_ends, as main calls it                                             *)
(***************************************************************************)
TrimEnds ==
    /\ pc = "trim_ends" /\ err = ""
    /\ LET r == trim_ends(sample_dict, leadingQ, trailingQ)
       IN  /\ sample_dict' = r.dict
           /\ IF r.raised # ""
              THEN pc' = pc /\ err' = r.raised
              ELSE pc' = "write_fasta" /\ err' = err
    /\ UNCHANGED <<num_lines, n_absolute, n_percent, sample_size, sample_set,
                   fastq, ascii64, leadingQ, trailingQ, retrimmed, fasta,
                   blast_results, blast_dict, GeneIDs, batch_size, posted, start,
                   attempt, fetch_handle, efetch_log, fetch_out, genbank, report>>

\* the trimmed lists of a record, empty when trim_ends left them unset
TrimmedPhred(rec) ==
    IF "trimmed_phred" \in DOMAIN rec THEN rec["trimmed_phred"] ELSE <<>>

TrimmedSequence(rec) ==
    IF "trimmed_sequence" \in DOMAIN rec THEN rec["trimmed_sequence"] ELSE <<>>

\* the records a second call of trim_ends is given: the trimmed lists of the
\* first call as sequence and phred
AsNewRecords(d) ==
    [i \in DOMAIN d |->
        [key |-> d[i].key,
         val |-> [sequence |-> TrimmedSequence(d[i].val),
                  phred    |-> TrimmedPhred(d[i].val)]]]

\* trim_ends called again, with the same thresholds, on its own output
TrimAgain ==
    /\ pc = "write_fasta" /\ err = ""
    /\ retrimmed.raised = "unset"
    /\ retrimmed' = trim_ends(AsNewRecords(sample_dict), leadingQ, trailingQ)
    /\ UNCHANGED <<pc, err, num_lines, n_absolute, n_percent, sample_size,
                   sample_set, fastq, ascii64, leadingQ, trailingQ, sample_dict,
                   fasta, blast_results, blast_dict, GeneIDs, batch_size, posted,
                   start, attempt, fetch_handle, efetch_log, fetch_out, genbank,
                   report>>

(***************************************************************************)
(* write_fasta                                                             *)
(***************************************************************************)
\* the FASTA entries of the dict's records from the i-th on: a record without
\* the key trimmed_sequence is skipped
RECURSIVE FastaFrom(_, _)
FastaFrom(d, i) ==
    IF i > Len(d)
    THEN <<>>
    ELSE IF "trimmed_sequence" \in DOMAIN d[i].val
    THEN <<[title |-> Tail(d[i].key), sequence |-> d[i].val["trimmed_sequence"]]>>
            \o FastaFrom(d, i + 1)
    ELSE FastaFrom(d, i + 1)

write_fasta(d) == FastaFrom(d, 1)

WriteFasta ==
    /\ pc = "write_fasta" /\ err = ""
    /\ fasta' = write_fasta(sample_dict)
    /\ pc' = "blast_reads"
    /\ UNCHANGED <<err, num_lines, n_absolute, n_percent, sample_size, sample_set,
                   fastq, ascii64, leadingQ, trailingQ, sample_dict, retrimmed,
                   blast_results, blast_dict, GeneIDs, batch_size, posted, start,
                   attempt, fetch_handle, efetch_log, fetch_out, genbank, report>>


(***************************************************************************)
(* blast_reads: the search is NCBI's; its response is any the service can  *)
(* give for the queries sent.                                              *)
(***************************************************************************)
\* the accession of the database sequence with gi number g: N1, N11, N111, ...
AccessionOf(g) == <<"N">> \o [j \in 1..g |-> "1"]

\* align.title.split('|') of the hit on the sequence with gi number g:
\* gi|<number>|<db>|<accession>|<description>
Title(g) ==
    [source |-> "gi", gi |-> g, db |-> "gb", accession |-> AccessionOf(g),
     description |-> "d"]

\* an alignment of a query with the database sequence g, with one HSP that
\* covers the query
Alignment(g, sequence) ==
    [title |-> Title(g),
     hsps  |-> <<[query |-> sequence, identities |-> Len(sequence),
                  align_length |-> Len(sequence), score |-> Len(sequence),
                  expect |-> 0]>>]

\* the alignments of one query with the database sequences of the set gis, in
\* the order of their gi numbers, from gi number g on
RECURSIVE AlignmentsFrom(_, _, _, _)
AlignmentsFrom(gis, sequence, g, top) ==
    IF g > top
    THEN <<>>
    ELSE (IF g \in gis THEN <<Alignment(g, sequence)>> ELSE <<>>)
            \o AlignmentsFrom(gis, sequence, g + 1, top)

\* a response: one record per query of the FASTA file, hits[i] the database
\* sequences the i-th query aligns with
Response(queries, hits, top) ==
    [i \in DOMAIN queries |->
        [query      |-> queries[i].title,
         alignments |-> AlignmentsFrom(hits[i], queries[i].sequence, 1, top)]]

BlastReads ==
    /\ pc = "blast_reads" /\ err = ""
    /\ \/ \E hits \in [DOMAIN fasta -> SUBSET (1..MaxHits)] :
             /\ blast_results' = Response(fasta, hits, MaxHits)
             /\ pc' = "blast_to_dict"
             /\ err' = ""
       \* qblast raises: the service is not reached or refuses the query, and
       \* blast_results.xml is not written
       \/ /\ blast_results' = blast_results
          /\ pc' = pc
          /\ err' = "URLError"
    /\ UNCHANGED <<num_lines, n_absolute, n_percent, sample_size, sample_set,
                   fastq, ascii64, leadingQ, trailingQ, sample_dict, retrimmed,
                   fasta, blast_dict, GeneIDs, batch_size, posted, start, attempt,
                   fetch_handle, efetch_log, fetch_out, genbank, report>>

(***************************************************************************)
(* blast_to_dict                                                           *)
(***************************************************************************)
\* the number of binary digits of x
RECURSIVE BitLength(_)
BitLength(x) == IF x = 0 THEN 0 ELSE 1 + BitLength(x \div 2)

\* the digits of the significand of a float
Mantissa == 53

\* the long division r / den in binary, up to the last digit of the
\* significand: sig digits are in the significand so far, last is the latest
RECURSIVE DivideFrom(_, _, _, _)
DivideFrom(r, den, sig, last) ==
    IF r = 0 \/ sig = Mantissa
    THEN [r |-> r, last |-> last]
    ELSE LET bit == IF 2 * r >= den THEN 1 ELSE 0
         IN  DivideFrom(2 * r - bit * den, den,
                        IF sig > 0 \/ bit = 1 THEN sig + 1 ELSE 0, bit)

\* the float division num / den of two positive whole floats rounds the
\* quotient to the nearest float, a half to even: 1 when the float is above
\* the quotient, -1 when it is below, 0 when it is the quotient
FloatError(num, den) ==
    LET whole == num \div den
        d     == DivideFrom(num % den, den, BitLength(whole), whole % 2)
    IN  IF d.r = 0 THEN 0
        ELSE IF 2 * d.r > den THEN 1
        ELSE IF 2 * d.r < den THEN -1
        ELSE IF d.last = 1 THEN 1 ELSE -1

\* round(100 * float(identities) / float(align_length), 2), in hundredths:
\* round() rounds the float that the division gave, so a quotient half way
\* between two hundredths goes to the side its float lies on, and to the even
\* hundredth only when the float is the quotient
PercentIdentity(hsp) ==
    LET num  == 100 * hsp.identities
        den  == hsp.align_length
        q    == (100 * num) \div den
        r    == (100 * num) % den
        side == FloatError(num, den)
    IN  IF 2 * r < den THEN q
        ELSE IF 2 * r > den THEN q + 1
        ELSE IF side > 0 THEN q + 1
        ELSE IF side < 0 THEN q
        ELSE PyRound(100 * num, den)

\* the fields stored for one HSP of one alignment of one record
HitFields(record, align, hsp) ==
    [SeqID            |-> record.query,
     Sequence         |-> hsp.query,
     SeqLength        |-> Len(hsp.query),
     Description      |-> align.title.description,
     Accession        |-> align.title.accession,
     Db               |-> align.title.db,
     Score            |-> hsp.score,
     E_value          |-> hsp.expect,
     Percent_Identity |-> PercentIdentity(hsp)]

\* the three nested loops, from HSP k of alignment j of record i on; acc holds
\* blast_dict and the list GeneIDs
RECURSIVE ParseFrom(_, _, _, _, _)
ParseFrom(results, i, j, k, acc) ==
    IF i > Len(results)
    THEN acc
    ELSE IF j > Len(results[i].alignments)
    THEN ParseFrom(results, i + 1, 1, 1, acc)
    ELSE IF k > Len(results[i].alignments[j].hsps)
    THEN ParseFrom(results, i, j + 1, 1, acc)
    ELSE LET record == results[i]
             align  == record.alignments[j]
             hsp    == align.hsps[k]
         IN  ParseFrom(results, i, j, k + 1,
                       [dict |-> Put(acc.dict, align.title, HitFields(record, align, hsp)),
                        ids  |-> Append(acc.ids, align.title.gi)])

blast_to_dict(results) == ParseFrom(results, 1, 1, 1, [dict |-> <<>>, ids |-> <<>>])

\* `if not GeneIDs`: the search returned no alignment at all
NeverRejected(ids) == FALSE

Rejected(ids) == ids = {}

\* the orders list(set(GeneIDs)) can have
Orderings(S) ==
    {s \in [1..Cardinality(S) -> S] : \A x \in S : \E i \in DOMAIN s : s[i] = x}

BlastToDict ==
    /\ pc = "blast_to_dict" /\ err = ""
    /\ LET parsed == blast_to_dict(blast_results)
       IN  /\ blast_dict' = parsed.dict
           /\ IF Rejected(Range(parsed.ids))
              THEN /\ GeneIDs' = <<>>
                   /\ pc' = pc
                   /\ err' = "SystemExit"
              ELSE /\ GeneIDs' \in Orderings(Range(parsed.ids))
                   /\ pc' = "fetch_gene_info"
                   /\ err' = err
    /\ UNCHANGED <<num_lines, n_absolute, n_percent, sample_size, sample_set,
                   fastq, ascii64, leadingQ, trailingQ, sample_dict, retrimmed,
                   fasta, blast_results, batch_size, posted, start, attempt,
                   fetch_handle, efetch_log, fetch_out, genbank, report>>

(***************************************************************************)
(* fetch_gene_info: Entrez is NCBI's; each request succeeds, fails with a  *)
(* 5xx HTTP error or fails with another HTTP error.                        *)
(***************************************************************************)
MaxAttempts == 3
DefaultBatchSize == 100

\* the GenBank record with the given id
GenBankRecord(id) ==
    [id |-> id, organism |-> <<"organism of">> \o id, source |-> <<"source of">> \o id,
     taxonomy |-> <<"domain", "kingdom">>]

\* the concatenation of a list of lists
RECURSIVE Concat(_)
Concat(ss) == IF ss = <<>> THEN <<>> ELSE Head(ss) \o Concat(Tail(ss))

\* the records efetch returns for retstart = from and retmax = size of the
\* posted list
Fetched(ids, db, from, size) ==
    Concat([i \in 1..(Min(Len(ids), from + size) - from) |-> db[ids[from + i]]])

\* lines 239-245: the epost request and the opening of fetch_results.txt
Epost ==
    /\ pc = "fetch_gene_info" /\ err = ""
    /\ posted' = posted + 1
    /\ \E outcome \in {"ok", "error"} :
          IF outcome = "error"
          THEN /\ pc' = pc
               /\ err' = "HTTPError"
               /\ UNCHANGED <<start, attempt, fetch_out>>
          ELSE /\ start' = 0
               /\ attempt' = 0
               /\ fetch_out' = <<>>
               /\ pc' = IF 0 < Len(GeneIDs) THEN "efetch" ELSE "fetch_to_dict"
               /\ err' = err
    /\ UNCHANGED <<num_lines, n_absolute, n_percent, sample_size, sample_set,
                   fastq, ascii64, leadingQ, trailingQ, sample_dict, retrimmed,
                   fasta, blast_results, blast_dict, GeneIDs, batch_size,
                   fetch_handle, efetch_log, genbank, report>>

\* lines 250-261: one pass of the while loop.  Nothing leaves the loop but
\* attempt reaching 3 or an error that is not a 5xx
EfetchAttempt ==
    /\ pc = "efetch" /\ err = ""
    /\ attempt < MaxAttempts
    /\ attempt' = attempt + 1
    /\ \E outcome \in {"ok", "5xx", "4xx"} :
          /\ efetch_log' = Append(efetch_log,
                 [start |-> start, attempt |-> attempt + 1, outcome |-> outcome])
          /\ fetch_handle' = IF outcome = "ok"
                             THEN [state |-> "open", start |-> start]
                             ELSE fetch_handle
          /\ pc' = pc
          /\ err' = IF outcome = "4xx" THEN "HTTPError" ELSE err
    /\ UNCHANGED <<num_lines, n_absolute, n_percent, sample_size, sample_set,
                   fastq, ascii64, leadingQ, trailingQ, sample_dict, retrimmed,
                   fasta, blast_results, blast_dict, GeneIDs, batch_size, posted,
                   start, fetch_out, genbank, report>>

\* what fetch_handle.read() does, by the state of the handle.  No handle was
\* ever bound when every attempt of the first batch failed; the handle is the
\* previous batch's, closed at line 263, when every attempt of a later batch
\* failed, and reading a closed handle raises ValueError or returns nothing,
\* by the kind of handle
ReadOutcomes(handle) ==
    CASE handle.state = "unbound" -> {"UnboundLocalError"}
      [] handle.state = "closed"  -> {"ValueError", "empty"}
      [] OTHER                    -> {"data"}

\* lines 262-263 and the step of the for loop
WriteBatch ==
    /\ pc = "efetch" /\ err = ""
    /\ attempt >= MaxAttempts
    /\ \E outcome \in ReadOutcomes(fetch_handle) :
          IF outcome \in {"UnboundLocalError", "ValueError"}
          THEN /\ pc' = pc
               /\ err' = outcome
               /\ UNCHANGED <<start, attempt, fetch_handle, fetch_out>>
          ELSE /\ fetch_out' = Append(fetch_out,
                     [start   |-> start,
                      records |-> IF outcome = "data"
                                  THEN Fetched(GeneIDs, genbank, fetch_handle.start,
                                               batch_size)
                                  ELSE <<>>])
               /\ fetch_handle' = [fetch_handle EXCEPT !.state = "closed"]
               /\ start' = start + batch_size
               /\ attempt' = 0
               /\ pc' = IF start + batch_size < Len(GeneIDs)
                        THEN "efetch" ELSE "fetch_to_dict"
               /\ err' = err
    /\ UNCHANGED <<num_lines, n_absolute, n_percent, sample_size, sample_set,
                   fastq, ascii64, leadingQ, trailingQ, sample_dict, retrimmed,
                   fasta, blast_results, blast_dict, GeneIDs, batch_size, posted,
                   efetch_log, genbank, report>>

(***************************************************************************)
(* fetch_to_dict                                                           *)
(***************************************************************************)
\* a in b, for two str
IsSubstring(a, b) ==
    \E i \in 0..(Len(b) - Len(a)) : SubSeq(b, i + 1, i + Len(a)) = a

\* lines 277-281, from record i on
RECURSIVE FetchDictFrom(_, _, _)
FetchDictFrom(records, i, d) ==
    IF i > Len(records)
    THEN d
    ELSE FetchDictFrom(records, i + 1,
             Put(d, records[i].id,
                 [Organism |-> records[i].organism,
                  Source   |-> records[i].source,
                  Domain   |-> records[i].taxonomy[1],
                  Taxonomy |-> records[i].taxonomy]))

\* lines 283-286 for one hit, from the j-th accession on
RECURSIVE MergeInto(_, _, _)
MergeInto(hit, fetch_dict, j) ==
    IF j > Len(fetch_dict)
    THEN hit
    ELSE IF IsSubstring(fetch_dict[j].key, hit["Accession"])
    THEN MergeInto(SetKey(SetKey(SetKey(SetKey(hit,
                       "Organism", fetch_dict[j].val["Organism"]),
                       "Source", fetch_dict[j].val["Source"]),
                       "Domain", fetch_dict[j].val["Domain"]),
                       "Taxonomy", fetch_dict[j].val["Taxonomy"]),
                   fetch_dict, j + 1)
    ELSE MergeInto(hit, fetch_dict, j + 1)

fetch_to_dict(hits, out) ==
    LET fetch_dict == FetchDictFrom(Concat([i \in DOMAIN out |-> out[i].records]), 1, <<>>)
    IN  [i \in DOMAIN hits |->
            [key |-> hits[i].key, val |-> MergeInto(hits[i].val, fetch_dict, 1)]]

FetchToDict ==
    /\ pc = "fetch_to_dict" /\ err = ""
    /\ blast_dict' = fetch_to_dict(blast_dict, fetch_out)
    /\ pc' = "tabular_report"
    /\ UNCHANGED <<err, num_lines, n_absolute, n_percent, sample_size, sample_set,
                   fastq, ascii64, leadingQ, trailingQ, sample_dict, retrimmed,
                   fasta, blast_results, GeneIDs, batch_size, posted, start,
                   attempt, fetch_handle, efetch_log, fetch_out, genbank, report>>

(***************************************************************************)
(* tabular_report                                                          *)
(***************************************************************************)
Columns == <<"SeqID", "Sequence", "SeqLength", "Description", "Accession", "Db",
             "Score", "E_value", "Percent_Identity", "Organism", "Source",
             "Domain", "Taxonomy">>

Marker == "NO HIT OR SEQUENCE QUALITY BELOW THRESHOLD"

\* line 312: the row of one hit; a column the hit has no key for raises KeyError
HitRow(hit) ==
    IF \A c \in DOMAIN Columns : Columns[c] \in DOMAIN hit
    THEN [raised |-> "", row |-> [c \in DOMAIN Columns |-> hit[Columns[c]]]]
    ELSE [raised |-> "KeyError", row |-> <<>>]

\* line 316: the row of a sample without hit; sample_dict['@' + sample] of a key
\* that is missing makes an empty inner dict, whose 'sequence' raises KeyError
FallbackRowTrimmed(d, sample) ==
    LET rec == Get(d, <<"@">> \o sample)
    IN  [raised |-> "",
         row |-> <<sample, TrimmedSequence(rec), Len(TrimmedSequence(rec)), Marker>>]

FallbackRow(d, sample) ==
    IF (<<"@">> \o sample) \in KeySet(d)
    THEN LET rec == Get(d, <<"@">> \o sample)
         IN  [raised |-> "",
              row |-> <<sample, rec["sequence"], Len(rec["sequence"]), Marker>>]
    ELSE [raised |-> "KeyError", row |-> <<>>]

\* lines 311-312, from hit i on: the rows written and the error that ended it
RECURSIVE HitRowsFrom(_, _, _)
HitRowsFrom(hits, i, rows) ==
    IF i > Len(hits)
    THEN [raised |-> "", rows |-> rows]
    ELSE LET r == HitRow(hits[i].val)
         IN  IF r.raised # ""
             THEN [raised |-> r.raised, rows |-> rows]
             ELSE HitRowsFrom(hits, i + 1, Append(rows, r.row))

\* lines 313-316, from sample i on
RECURSIVE FallbackRowsFrom(_, _, _, _, _)
FallbackRowsFrom(d, samples, records, i, rows) ==
    IF i > Len(samples)
    THEN [raised |-> "", rows |-> rows]
    ELSE IF samples[i] \in Range(records)
    THEN FallbackRowsFrom(d, samples, records, i + 1, rows)
    ELSE LET r == FallbackRow(d, samples[i])
         IN  IF r.raised # ""
             THEN [raised |-> r.raised, rows |-> rows]
             ELSE FallbackRowsFrom(d, samples, records, i + 1, Append(rows, r.row))

\* the file written, header row first, and the error that ended the writing
tabular_report(d, hits) ==
    LET samples == [i \in DOMAIN d |-> Tail(d[i].key)]
        records == [i \in DOMAIN hits |-> hits[i].val["SeqID"]]
        hitrows == HitRowsFrom(hits, 1, <<Columns>>)
    IN  IF hitrows.raised # ""
        THEN hitrows
        ELSE FallbackRowsFrom(d, samples, records, 1, hitrows.rows)

TabularReport ==
    /\ pc = "tabular_report" /\ err = ""
    /\ LET r == tabular_report(sample_dict, blast_dict)
       IN  /\ report' = r.rows
           /\ pc' = IF r.raised = "" THEN "done" ELSE pc
           /\ err' = r.raised
    /\ UNCHANGED <<num_lines, n_absolute, n_percent, sample_size, sample_set,
                   fastq, ascii64, leadingQ, trailingQ, sample_dict, retrimmed,
                   fasta, blast_results, blast_dict, GeneIDs, batch_size, posted,
                   start, attempt, fetch_handle, efetch_log, fetch_out, genbank>>

(***************************************************************************)
(* Initial states.                                                         *)
(***************************************************************************)
\* a read of the FASTQ file with the given phred scores, encoded with offset
\* 64 or 33
ReadWith(header, phred, is64) ==
    [header   |-> header,
     sequence |-> [i \in DOMAIN phred |-> Bases[((i - 1) % Len(Bases)) + 1]],
     ascii    |-> [i \in DOMAIN phred |->
                     phred[i] + (IF is64 THEN Phred64 ELSE Phred33)]]

Read(header, phred) == ReadWith(header, phred, FALSE)

\* the GenBank records the server returns for the sequence with gi number g:
\* none, the record of its accession, or a record of an unrelated accession
ServerRecords(g) ==
    {<<>>, <<GenBankRecord(AccessionOf(g))>>, <<GenBankRecord(<<"X">>)>>}

NotSampled == sample_size = -1 /\ sample_set = {}

NotTrimmed == sample_dict = <<>> /\ retrimmed = [raised |-> "unset", dict |-> <<>>]

NotSearched ==
    fasta = <<>> /\ blast_results = <<>> /\ blast_dict = <<>> /\ GeneIDs = <<>>

NotFetched ==
    /\ posted = 0 /\ start = 0 /\ attempt = 0
    /\ fetch_handle = [state |-> "unbound", start |-> -1]
    /\ efetch_log = <<>> /\ fetch_out = <<>>

\* random_sample alone, on a file of any length with any requested size
InitSample ==
    /\ pc = "random_sample" /\ err = ""
    /\ num_lines \in 1..MaxLines
    /\ n_absolute \in 0..MaxAbsolute
    /\ n_percent \in 0..MaxPercent
    /\ fastq = [i \in 1..NumSequences(num_lines) |-> Read(<<"@">> \o [j \in 1..i |-> "r"], <<MaxScore>>)]
    /\ ascii64 = FALSE /\ leadingQ = 1 /\ trailingQ = 1
    /\ batch_size = 1 /\ genbank = <<>> /\ report = <<>>
    /\ NotSampled /\ NotTrimmed /\ NotSearched /\ NotFetched

NextSample == RandomSample \/ FastqToDict

SpecSample == InitSample /\ [][NextSample]_vars

\* trim_ends and write_fasta on one sampled read with any scores, under any
\* pair of thresholds
InitTrim ==
    /\ pc = "trim_ends" /\ err = ""
    /\ num_lines = LinesPerRecord /\ n_absolute = 1 /\ n_percent = 0
    /\ sample_size = 1 /\ sample_set = {0}
    /\ ascii64 \in BOOLEAN
    /\ \E phred \in SeqsUpTo(Scores, MaxLen) :
          fastq = <<ReadWith(HeaderA, phred, ascii64)>>
    /\ leadingQ \in Thresholds /\ trailingQ \in Thresholds
    /\ sample_dict = fastq_to_dict(fastq, sample_set, ascii64)
    /\ retrimmed = [raised |-> "unset", dict |-> <<>>]
    /\ batch_size = 1 /\ genbank = <<>> /\ report = <<>>
    /\ NotSearched /\ NotFetched

NextTrim == TrimEnds \/ TrimAgain \/ WriteFasta

SpecTrim == InitTrim /\ [][NextTrim]_vars

\* fetch_gene_info alone, on any number of gi numbers in batches of any size
InitFetch ==
    /\ pc = "fetch_gene_info" /\ err = ""
    /\ num_lines = LinesPerRecord /\ n_absolute = 1 /\ n_percent = 0
    /\ sample_size = 1 /\ sample_set = {0}
    /\ fastq = <<Read(HeaderA, <<MaxScore>>)>>
    /\ ascii64 = FALSE /\ leadingQ = 1 /\ trailingQ = 1
    /\ sample_dict = trim_ends(fastq_to_dict(fastq, sample_set, ascii64),
                               leadingQ, trailingQ).dict
    /\ retrimmed = [raised |-> "unset", dict |-> <<>>]
    /\ fasta = write_fasta(sample_dict)
    /\ \E n \in 1..MaxGenes :
          /\ blast_results = Response(fasta, [i \in DOMAIN fasta |-> 1..n], n)
          /\ GeneIDs = [i \in 1..n |-> i]
    /\ blast_dict = blast_to_dict(blast_results).dict
    /\ batch_size \in 1..MaxBatch
    /\ genbank = [g \in 1..MaxGenes |-> <<GenBankRecord(AccessionOf(g))>>]
    /\ report = <<>>
    /\ NotFetched

NextFetch == Epost \/ EfetchAttempt \/ WriteBatch

SpecFetch == InitFetch /\ [][NextFetch]_vars

\* fetch_to_dict and tabular_report, after a run that sampled both reads of a
\* file, found at least one hit and fetched its one batch at the first attempts
InitReport ==
    /\ pc = "fetch_to_dict" /\ err = ""
    /\ num_lines = 2 * LinesPerRecord /\ n_percent = 0 /\ ascii64 = FALSE
    /\ \E pa \in {LowFirst, LowLast}, pb \in {<<0>>, <<MaxScore>>} :
          fastq = <<Read(HeaderA, pa), Read(HeaderB, pb)>>
    /\ sample_set = {0, LinesPerRecord}
    /\ n_absolute = 2 /\ sample_size = 2
    /\ leadingQ \in CutOffs /\ trailingQ = leadingQ
    /\ LET r == trim_ends(fastq_to_dict(fastq, sample_set, ascii64),
                          leadingQ, trailingQ)
       IN  r.raised = "" /\ sample_dict = r.dict
    /\ retrimmed = [raised |-> "unset", dict |-> <<>>]
    /\ fasta = write_fasta(sample_dict)
    /\ \E hits \in [DOMAIN fasta -> SUBSET (1..MaxHits)] :
          blast_results = Response(fasta, hits, MaxHits)
    /\ LET parsed == blast_to_dict(blast_results)
       IN  /\ blast_dict = parsed.dict
           /\ parsed.ids # <<>>
           /\ GeneIDs \in Orderings(Range(parsed.ids))
    /\ batch_size = DefaultBatchSize
    /\ genbank \in [1..MaxHits -> UNION {ServerRecords(g) : g \in 1..MaxHits}]
    /\ \A g \in 1..MaxHits :
          genbank[g] \in IF g \in Range(GeneIDs) THEN ServerRecords(g) ELSE {<<>>}
    /\ posted = 1 /\ start = batch_size /\ attempt = 0
    /\ fetch_handle = [state |-> "closed", start |-> 0]
    /\ efetch_log = [a \in 1..MaxAttempts |-> [start |-> 0, attempt |-> a, outcome |-> "ok"]]
    /\ fetch_out = <<[start |-> 0, records |-> Fetched(GeneIDs, genbank, 0, batch_size)]>>
    /\ report = <<>>

NextReport == FetchToDict \/ TabularReport

SpecReport == InitReport /\ [][NextReport]_vars

\* main() on a file of two reads; the server holds no GenBank record, the
\* record of each accession, or unrelated records
Init ==
    /\ pc = "random_sample" /\ err = ""
    /\ num_lines = 2 * LinesPerRecord
    /\ fastq = <<Read(HeaderA, LowFirst), Read(HeaderB, <<MaxScore>>)>>
    /\ n_absolute \in 0..MaxAbsolute
    /\ n_percent \in {0, MaxPercent \div 2, MaxPercent}
    \* a percent supersedes the absolute size, which is then left above the
    \* population, as the default is
    /\ n_percent > 0 => n_absolute = MaxAbsolute
    /\ ascii64 = FALSE
    /\ leadingQ \in CutOffs /\ trailingQ = leadingQ
    /\ batch_size = DefaultBatchSize
    /\ \E k \in 1..3 :
          genbank = [g \in 1..MaxHits |->
                        <<<<>>, <<GenBankRecord(AccessionOf(g))>>,
                          <<GenBankRecord(<<"X">>)>>>>[k]]
    /\ report = <<>>
    /\ NotSampled /\ NotTrimmed /\ NotSearched /\ NotFetched

Next ==
    \/ RandomSample \/ FastqToDict \/ TrimEnds \/ WriteFasta \/ BlastReads
    \/ BlastToDict \/ Epost \/ EfetchAttempt \/ WriteBatch \/ FetchToDict
    \/ TabularReport

Spec == Init /\ [][Next]_vars

(***************************************************************************)
(* Properties of random_sample.                                            *)
(***************************************************************************)
\* C7 as stated: random_sample uses round(requested_percent * total_count / 100)
\* as the sample size when requested_percent > 0, and requested_absolute
\* otherwise.
C7_SampleSizeIsRounded ==
    sample_size # -1 =>
        sample_size = IF n_percent > 0
                      THEN PyRound(n_percent * NumSequences(num_lines), MaxPercent)
                      ELSE n_absolute

\* C7 amended: random_sample uses the integer part of
\* requested_percent * total_count / 100 (the quotient truncated, not rounded)
\* as the sample size when requested_percent > 0, and requested_absolute
\* otherwise; the sample it then draws has exactly that many positions.
C7_SampleSizeIsTruncated ==
    sample_size # -1 =>
        /\ IF n_percent > 0
           THEN /\ sample_size * 100 <= n_percent * NumSequences(num_lines)
                /\ n_percent * NumSequences(num_lines) < (sample_size + 1) * 100
           ELSE sample_size = n_absolute
        /\ pc = "fastq_to_dict" => Cardinality(sample_set) = sample_size

\* a sample was drawn by percent where percent * count / 100 has a fractional
\* part of one half or more
C7_Witness ==
    /\ pc = "fastq_to_dict" /\ err = ""
    /\ n_percent > 0
    /\ 2 * ((n_percent * NumSequences(num_lines)) % 100) >= 100
    /\ Cardinality(sample_set) = sample_size

(***************************************************************************)
(* Properties of trim_ends.                                                *)
(***************************************************************************)
\* C2 as stated: for every record with a score >= leading_threshold, the
\* trimmed lists are exactly the slice from the first position whose score is
\* >= leading_threshold to the last position, among the leading-trimmed scores,
\* whose score is >= trailing_threshold, and the last kept score is
\* >= trailing_threshold.
C2_TrimmedIsFirstToLast ==
    pc = "write_fasta" =>
        \A i \in DOMAIN sample_dict :
            LET rec  == sample_dict[i].val
                f    == FirstAtLeast(rec["phred"], leadingQ)
                lead == SliceFrom(rec["phred"], f - 1)
                l    == LastAtLeast(lead, trailingQ)
            IN  (f # 0 /\ l # 0) =>
                    /\ "trimmed_phred" \in DOMAIN rec
                    /\ rec["trimmed_phred"] = SubSeq(rec["phred"], f, f + l - 1)
                    /\ rec["trimmed_sequence"] = SubSeq(rec["sequence"], f, f + l - 1)
                    /\ rec["trimmed_phred"][Len(rec["trimmed_phred"])] >= trailingQ

AllBelowLeading(rec) == \A j \in DOMAIN rec["phred"] : rec["phred"][j] < leadingQ

\* C3 as stated: when every score of every record is below leading_threshold,
\* whatever trailing_threshold is, trim_ends raises no error, leaves the
\* trimmed lists unset, and write_fasta writes no query for the record.
C3_AllBelowLeadingIsNoError ==
    ((pc # "trim_ends" \/ err # "") /\ \A i \in DOMAIN sample_dict : AllBelowLeading(sample_dict[i].val)) =>
        /\ err = ""
        /\ \A i \in DOMAIN sample_dict :
              /\ "trimmed_phred" \notin DOMAIN sample_dict[i].val
              /\ "trimmed_sequence" \notin DOMAIN sample_dict[i].val
        /\ pc = "blast_reads" => fasta = <<>>

\* C9 as stated: trim_ends given its own trimmed lists as a record's sequence
\* and phred, with the same thresholds, yields the same trimmed lists.
C9_TrimIsIdempotent ==
    retrimmed.raised # "unset" =>
        /\ retrimmed.raised = ""
        /\ \A i \in DOMAIN sample_dict :
              /\ TrimmedPhred(retrimmed.dict[i].val) = TrimmedPhred(sample_dict[i].val)
              /\ TrimmedSequence(retrimmed.dict[i].val) = TrimmedSequence(sample_dict[i].val)

(***************************************************************************)
(* Properties of fetch_gene_info.                                          *)
(***************************************************************************)
\* C4 as stated: the batches are requested in order, each at most 3 times, a
\* further request for a batch is made only after the previous one failed with
\* a 5xx error, and a failure of another class ends the run at once.
C4_RetryOnlyAfterTransientFailure ==
    /\ \A i \in DOMAIN efetch_log : efetch_log[i].attempt <= 3
    /\ \A i \in 1..(Len(efetch_log) - 1) :
          /\ efetch_log[i].start <= efetch_log[i + 1].start
          /\ efetch_log[i].start = efetch_log[i + 1].start =>
                efetch_log[i].outcome = "5xx"
    /\ \A i \in DOMAIN efetch_log :
          efetch_log[i].outcome = "4xx" =>
              i = Len(efetch_log) /\ pc = "efetch" /\ err = "HTTPError"

\* every request for the batch at b failed with a 5xx error, 3 times
Exhausted(b) ==
    Cardinality({i \in DOMAIN efetch_log :
                    efetch_log[i].start = b /\ efetch_log[i].outcome = "5xx"}) = 3

\* C5 as stated: once the 3 attempts of a batch have all failed with a 5xx
\* error and the loop has been left, the run has ended with that HTTP error,
\* for the first batch and for every later one, and nothing was written to the
\* output for the batch.
C5_ExhaustedRetryIsFatal ==
    \A b \in {efetch_log[i].start : i \in DOMAIN efetch_log} :
        (Exhausted(b) /\ ~(pc = "efetch" /\ err = "" /\ start = b)) =>
            /\ pc = "efetch" /\ err = "HTTPError"
            /\ \A k \in DOMAIN fetch_out : fetch_out[k].start # b

(***************************************************************************)
(* Properties of main.                                                     *)
(***************************************************************************)
NoAlignments == \A i \in DOMAIN blast_results : blast_results[i].alignments = <<>>

\* C6: once blast_to_dict has parsed a response without any alignment, the run
\* has ended in blast_to_dict, and no epost or efetch request was made, nothing
\* was fetched or merged and no report was written.
C6_EmptySearchHaltsBeforeFetch ==
    (/\ NoAlignments
     /\ pc \notin {"random_sample", "fastq_to_dict", "trim_ends", "write_fasta",
                   "blast_reads"}
     /\ ~(pc = "blast_to_dict" /\ err = "")) =>
        /\ pc = "blast_to_dict" /\ err = "SystemExit"
        /\ posted = 0 /\ efetch_log = <<>> /\ fetch_out = <<>>
        /\ fetch_handle.state = "unbound"
        /\ report = <<>>

\* a search whose queries all came back without alignment ended the run
C6_Witness ==
    /\ pc = "blast_to_dict" /\ err = "SystemExit"
    /\ blast_results # <<>>
    /\ NoAlignments

(***************************************************************************)
(* Properties of tabular_report.                                           *)
(***************************************************************************)
\* tabular_report has returned or raised
ReportEnded == pc = "done" \/ (pc = "tabular_report" /\ err # "")

\* the rows after the header row
Rows == IF report = <<>> THEN <<>> ELSE Tail(report)

IsHitRow(row) == Len(row) = Len(Columns)

IsFallbackRow(row) == Len(row) = 4

\* the rows of a sample, by kind
HitRowsOf(sample) == {k \in DOMAIN Rows : IsHitRow(Rows[k]) /\ Rows[k][1] = sample}

FallbackRowsOf(sample) ==
    {k \in DOMAIN Rows : IsFallbackRow(Rows[k]) /\ Rows[k][1] = sample}

\* the samples that are the SeqID of no hit
HasHit(sample) == \E j \in DOMAIN blast_dict : blast_dict[j].val["SeqID"] = sample

Unmatched == {i \in DOMAIN sample_dict : ~HasHit(Tail(sample_dict[i].key))}

\* C1 as stated: in the written report every sample header is the SeqID of at
\* least one hit row or has exactly one fallback row, never both and never
\* neither, and the rows after the header row number the hits plus the samples
\* without hit.
C1_CorrelatorClosure ==
    ReportEnded =>
        /\ \A i \in DOMAIN sample_dict :
              LET sample == Tail(sample_dict[i].key)
              IN  \/ HitRowsOf(sample) # {} /\ FallbackRowsOf(sample) = {}
                  \/ HitRowsOf(sample) = {} /\ Cardinality(FallbackRowsOf(sample)) = 1
        /\ Len(Rows) = Len(blast_dict) + Cardinality(Unmatched)

\* C10 as stated: whatever the hits and the GenBank records, also when none
\* matches a hit, tabular_report writes exactly one row for each hit, ends
\* without error, and writes every hit row before every fallback row.
C10_OneRowPerHit ==
    ReportEnded =>
        /\ err = ""
        /\ \A j \in DOMAIN blast_dict :
              /\ j \in DOMAIN Rows
              /\ IsHitRow(Rows[j])
              /\ Rows[j][1] = blast_dict[j].val["SeqID"]
              /\ Rows[j][5] = blast_dict[j].val["Accession"]
        /\ \A k \in DOMAIN Rows : k > Len(blast_dict) => IsFallbackRow(Rows[k])

\* C8 as stated: the fallback row of a sample without hit holds the header, the
\* trimmed sequence (empty when unset), its length and the marker.
C8_FallbackRowHoldsTrimmedSequence ==
    \A k \in DOMAIN Rows :
        IsFallbackRow(Rows[k]) =>
            \E i \in Unmatched :
                LET trimmed == TrimmedSequence(sample_dict[i].val)
                IN  Rows[k] = <<Tail(sample_dict[i].key), trimmed, Len(trimmed),
                                "NO HIT OR SEQUENCE QUALITY BELOW THRESHOLD">>

\* C8 amended: every fallback row written is the row of a sample without hit
\* and holds its header (without the leading @), its whole untrimmed sequence,
\* the length of the untrimmed sequence and the marker; and when the report is
\* complete every sample without hit has such a row.
C8_FallbackRowHoldsRawSequence ==
    /\ \A k \in DOMAIN Rows :
          IsFallbackRow(Rows[k]) =>
              \E i \in Unmatched :
                  LET raw == sample_dict[i].val["sequence"]
                  IN  Rows[k] = <<Tail(sample_dict[i].key), raw, Len(raw),
                                  "NO HIT OR SEQUENCE QUALITY BELOW THRESHOLD">>
    /\ pc = "done" =>
          \A i \in Unmatched : FallbackRowsOf(Tail(sample_dict[i].key)) # {}

\* a complete report with the fallback row of a read that trimming shortened
C8_Witness ==
    /\ pc = "done"
    /\ \E i \in Unmatched :
          /\ FallbackRowsOf(Tail(sample_dict[i].key)) # {}
          /\ "trimmed_sequence" \in DOMAIN sample_dict[i].val
          /\ sample_dict[i].val["trimmed_sequence"] # sample_dict[i].val["sequence"]

=============================================================================
